---- MODULE Spec2Model ----
(***************************************************************************)
(* Threaded-comment subsystem of RealTimeMap-backend:                      *)
(* MarkCommentService.create_comment and                                   *)
(* MarkCommentService.create_or_update_comment_reaction running as         *)
(* concurrent request tasks over the Comment, CommentStat and              *)
(* CommentReaction tables.  Every store access is a suspension point, so   *)
(* each handler is cut into one action per store round trip.               *)
(* The read side is modelled one call at a time on a store at rest:        *)
(* PaginationParams and PaginationResponse (SpecPage),                     *)
(* BaseSqlModel._build_filter_condition (SpecFilter), BaseSqlModel.count   *)
(* (SpecCount) and the listings get_comments and get_replies (SpecList).   *)
(* Around the service: the session get_comments loads into (SpecSession),  *)
(* the cached endpoints of custom_cache (SpecCache), the admin forms of    *)
(* AdminComment (SpecAdmin) and the dashboard of HomeView (SpecHome).      *)
(***************************************************************************)
EXTENDS Integers, FiniteSets, Sequences, TLC

\* ---- bounds -------------------------------------------------------------
MaxComments == 3      \* values the comments id sequence may hand out
MaxReactions == 2     \* values the comment_reactions id sequence may hand out
NumUsers == 2
NumMarks == 2

\* two request tasks run concurrently
Tasks == {1, 2}
Users == 1..NumUsers
Marks == 1..NumMarks
CommentIds == 1..MaxComments

\* Optional[int] columns and arguments: ids start at 1, None is falsy like 0
None == 0
\* a query that found no row
NoRow == [id |-> None]

CommentReactionType == {"like", "dislike"}

VARIABLES
    comments,         \* committed rows of table comments
    stats,            \* committed rows of table comment_stats
    reactions,        \* committed rows of table comment_reactions
    comment_id_seq,   \* last value of the comments id sequence
    stat_id_seq,      \* last value of the comment_stats id sequence
    reaction_id_seq,  \* last value of the comment_reactions id sequence
    pc,               \* per task: where its handler is suspended
    req,              \* per task: the arguments of the call
    found,            \* per task: the row its lookup returned (comment_reaction)
    pending,          \* per task: rows flushed in its open transaction
    outcome,          \* per task: how the call ended
    result,           \* per task: id of the row the call returned
    origin,           \* the comment_reactions table as it was initially
    run,              \* history: the current run of identical reaction requests
    call,             \* the read-only call under study and its arguments
    ret,              \* what that call returned or raised
    hooks,            \* per task: the hooks create_comment has run, in order
    cache,            \* entries of the cache backend and of lru_cache
    session,          \* the database session of the request under study
    clock             \* the wall clock of the process

vars == <<comments, stats, reactions, comment_id_seq, stat_id_seq,
          reaction_id_seq, pc, req, found, pending, outcome, result,
          origin, run, call, ret, hooks, cache, session, clock>>

tables == <<comments, stats, reactions>>
seqs == <<comment_id_seq, stat_id_seq, reaction_id_seq>>
process == <<cache, session, clock>>
query == <<call, ret, process>>

NoReq == [op |-> "none"]
NoPending == [comments |-> {}, stats |-> {}]
NoRun == [user |-> 1, comment_id |-> 1, init |-> "none", type |-> "like", n |-> 0]
NoCall == [op |-> "none"]
NoRet == [outcome |-> "none"]

\* ---- rows ---------------------------------------------------------------
\* Comment(id, parent_id, mark_id) as the write operations see it; content,
\* owner_id, is_deleted and created_at are stored as given and read by none
\* of them (the listings read rows built by Comment below)
CommentRow(id, parent_id, mark_id) ==
    [id |-> id, parent_id |-> parent_id, mark_id |-> mark_id]

\* CommentStat(id, comment_id, likes_count, dislikes_count, total_replies),
\* counters default to 0
CommentStatRow(id, comment_id) ==
    [id |-> id, comment_id |-> comment_id,
     likes_count |-> 0, dislikes_count |-> 0, total_replies |-> 0]

\* CommentReaction(id, user_id, comment_id, reaction_type)
CommentReactionRow(id, user_id, comment_id, reaction_type) ==
    [id |-> id, user_id |-> user_id, comment_id |-> comment_id,
     reaction_type |-> reaction_type]

\* comment_repo.get_by_id: the committed row with that id, or NoRow
get_by_id(id) ==
    IF \E c \in comments : c.id = id
    THEN CHOOSE c \in comments : c.id = id
    ELSE NoRow

\* the rows get_comment_reaction's statement selects
comment_reaction_rows(user_id, comment_id) ==
    {r \in reactions : r.user_id = user_id /\ r.comment_id = comment_id}

\* ---- create_comment -----------------------------------------------------
\* "if parent_comment.parent_id: raise NestingLevelExceededError()"
NestingLevelExceeded_off(parent_comment) == FALSE
NestingLevelExceeded_siblings(parent_comment) ==
    \/ parent_comment.parent_id # None
    \/ \E c \in comments : c.parent_id = parent_comment.id
NestingLevelExceeded(parent_comment) ==
    parent_comment.parent_id # None

\* the parent lookup and the checks that follow it, as the outcome they give:
\* print(parent_comment.id) dereferences the row before the None test
parent_check(parent_comment) ==
    IF parent_comment = NoRow THEN "AttributeError"
    ELSE IF NestingLevelExceeded(parent_comment) THEN "NestingLevelExceededError"
    ELSE "pass"

\* after_insert listener of Comment: one insert into comment_stats on the
\* connection of the flush; db_ok is whether the store accepts the insert
create_base_stats_swallow(target, db_ok) ==
    [raised |-> FALSE,
     rows |-> IF db_ok THEN {CommentStatRow(stat_id_seq + 1, target.id)} ELSE {}]
create_base_stats_twice(target, db_ok) ==
    [raised |-> ~db_ok,
     rows |-> IF db_ok THEN {CommentStatRow(stat_id_seq + 1, target.id),
                             CommentStatRow(stat_id_seq + 2, target.id)}
              ELSE {}]
create_base_stats(target, db_ok) ==
    [raised |-> ~db_ok,
     rows |-> IF db_ok THEN {CommentStatRow(stat_id_seq + 1, target.id)} ELSE {}]

update_comment_stats_recount(rows) ==
    {[s EXCEPT !.likes_count =
                 Cardinality({r \in reactions : r.comment_id = s.comment_id
                                                  /\ r.reaction_type = "like"}),
               !.total_replies =
                 Cardinality({c \in comments : c.parent_id = s.comment_id})] :
        s \in rows}

\* before_flush listener of Session, run by every flush on the comment_stats
\* rows: its body is "pass"
update_comment_stats(rows) == rows

\* the hooks of create_comment, as the record they leave of having run:
\* before_create_comment() takes no argument, after_create_comment(comment)
\* takes the created comment
HookRun(hook, comment) == [hook |-> hook, comment |-> comment]
before_create_comment_skipped(ran) == ran
before_create_comment(ran) == Append(ran, HookRun("before_create_comment", None))
after_create_comment(ran, comment) ==
    Append(ran, HookRun("after_create_comment", comment))

\* calls of create_comment that still may draw a comment id
Creating == {p \in Tasks : pc[p] \in {"cc_parent", "cc_create"}}

\* create_comment is called: the arguments are bound
StartCreateComment(p) ==
    /\ pc[p] = "idle"
    /\ comment_id_seq + Cardinality(Creating) < MaxComments
    /\ \E parent_id \in {None} \cup CommentIds, mark_id \in Marks :
         /\ req' = [req EXCEPT ![p] = [op |-> "create_comment", parent_id |-> parent_id,
                                       mark_id |-> mark_id]]
         /\ pc' = [pc EXCEPT ![p] = IF parent_id # None THEN "cc_parent" ELSE "cc_create"]
    /\ UNCHANGED <<tables, seqs, found, pending, outcome, result, origin, run, query, hooks>>

\* the parent is fetched and checked
CheckParent(p) ==
    /\ pc[p] = "cc_parent"
    /\ LET verdict == parent_check(get_by_id(req[p].parent_id)) IN
         IF verdict = "pass"
         THEN /\ pc' = [pc EXCEPT ![p] = "cc_create"]
              /\ UNCHANGED outcome
         ELSE /\ pc' = [pc EXCEPT ![p] = "done"]
              /\ outcome' = [outcome EXCEPT ![p] = verdict]
    /\ UNCHANGED <<tables, seqs, req, found, pending, result, origin, run, query, hooks>>

\* before_create_comment(), then comment_repo.create: the Comment is inserted
\* and, in the same flush, the after_insert listener inserts its CommentStat;
\* a failing listener fails the flush and the transaction is rolled back
CreateFlush(p) ==
    /\ pc[p] = "cc_create"
    /\ \E db_ok \in BOOLEAN :
         LET target == CommentRow(comment_id_seq + 1, req[p].parent_id,
                                  req[p].mark_id)
             listener == create_base_stats(target, db_ok)
         IN /\ comment_id_seq' = comment_id_seq + 1
            /\ stat_id_seq' = stat_id_seq + Cardinality(listener.rows)
            /\ IF listener.raised
               THEN /\ pc' = [pc EXCEPT ![p] = "done"]
                    /\ outcome' = [outcome EXCEPT ![p] = "DBAPIError"]
                    /\ UNCHANGED pending
               ELSE /\ pc' = [pc EXCEPT ![p] = "cc_commit"]
                    /\ pending' = [pending EXCEPT
                                     ![p] = [comments |-> {target}, stats |-> listener.rows]]
                    /\ UNCHANGED outcome
    /\ stats' = update_comment_stats(stats)
    /\ hooks' = [hooks EXCEPT ![p] = before_create_comment(hooks[p])]
    /\ UNCHANGED <<comments, reactions, reaction_id_seq, req, found, result, origin,
                   run, query>>

\* the transaction commits: both rows become visible together, then
\* after_create_comment(result) and return result
CreateCommit(p) ==
    /\ pc[p] = "cc_commit"
    /\ comments' = comments \cup pending[p].comments
    /\ stats' = stats \cup pending[p].stats
    /\ pending' = [pending EXCEPT ![p] = NoPending]
    /\ pc' = [pc EXCEPT ![p] = "done"]
    /\ outcome' = [outcome EXCEPT ![p] = "ok"]
    /\ result' = [result EXCEPT ![p] = (CHOOSE c \in pending[p].comments : TRUE).id]
    /\ hooks' = [hooks EXCEPT ![p] = after_create_comment(hooks[p], result'[p])]
    /\ UNCHANGED <<reactions, seqs, req, found, origin, run, query>>

\* the request is cancelled or its connection is lost while the call is in
\* progress: the open transaction is rolled back
CreateAbort(p) ==
    /\ pc[p] \in {"cc_parent", "cc_create", "cc_commit"}
    /\ pending' = [pending EXCEPT ![p] = NoPending]
    /\ pc' = [pc EXCEPT ![p] = "done"]
    /\ outcome' = [outcome EXCEPT ![p] = "Aborted"]
    /\ UNCHANGED <<tables, seqs, req, found, result, origin, run, query, hooks>>

\* ---- create_or_update_comment_reaction ----------------------------------
\* UniqueConstraint("user_id", "comment_id", name="uq_user_comment_reaction"):
\* whether the table accepts a new row for that pair
uq_user_comment_reaction_off(user_id, comment_id) == TRUE
uq_user_comment_reaction(user_id, comment_id) ==
    comment_reaction_rows(user_id, comment_id) = {}

\* ForeignKey("comments.id") of CommentReaction.comment_id
fk_comment(comment_id) == \E c \in comments : c.id = comment_id

\* the three-way branch on the row that was read
reaction_branch_no_toggle(comment_reaction, reaction_type) ==
    IF comment_reaction = NoRow THEN "create" ELSE "update"
reaction_branch_delete_any(comment_reaction, reaction_type) ==
    IF comment_reaction = NoRow THEN "create" ELSE "delete"
reaction_branch(comment_reaction, reaction_type) ==
    IF comment_reaction = NoRow THEN "create"
    ELSE IF comment_reaction.reaction_type = reaction_type THEN "delete"
    ELSE "update"

\* ids below this one belong to the rows the table starts with
SeedReactionIds == 2 * NumUsers

Reacting == {p \in Tasks : pc[p] \in {"cr_get", "cr_write"}}

\* create_or_update_comment_reaction is called: the arguments are bound
StartReaction(p) ==
    /\ pc[p] = "idle"
    /\ reaction_id_seq + Cardinality(Reacting) < SeedReactionIds + MaxReactions
    /\ \E comment_id \in CommentIds, user \in Users, reaction_type \in CommentReactionType :
         req' = [req EXCEPT ![p] = [op |-> "reaction", comment_id |-> comment_id,
                                    user |-> user, reaction_type |-> reaction_type]]
    /\ pc' = [pc EXCEPT ![p] = "cr_get"]
    /\ UNCHANGED <<tables, seqs, found, pending, outcome, result, origin, run, query, hooks>>

\* comment_reaction_repo.get_comment_reaction(user.id, comment_id)
GetCommentReaction(p) ==
    /\ pc[p] = "cr_get"
    /\ LET rows == comment_reaction_rows(req[p].user, req[p].comment_id) IN
         IF rows = {}
         THEN found' = [found EXCEPT ![p] = NoRow]
         ELSE \E r \in rows : found' = [found EXCEPT ![p] = r]
    /\ pc' = [pc EXCEPT ![p] = "cr_write"]
    /\ UNCHANGED <<tables, seqs, req, pending, outcome, result, origin, run, query, hooks>>

\* comment_reaction_repo.create(create_data)
ReactionCreate(p) ==
    LET row == CommentReactionRow(reaction_id_seq + 1, req[p].user,
                                  req[p].comment_id, req[p].reaction_type)
    IN /\ reaction_id_seq' = reaction_id_seq + 1
       /\ IF fk_comment(row.comment_id) /\ uq_user_comment_reaction(row.user_id, row.comment_id)
          THEN /\ reactions' = reactions \cup {row}
               /\ outcome' = [outcome EXCEPT ![p] = "created"]
               /\ result' = [result EXCEPT ![p] = row.id]
          ELSE /\ outcome' = [outcome EXCEPT ![p] = "IntegrityError"]
               /\ UNCHANGED <<reactions, result>>

\* comment_reaction_repo.delete(comment_reaction.id)
ReactionDelete(p) ==
    /\ UNCHANGED reaction_id_seq
    /\ IF \E r \in reactions : r.id = found[p].id
       THEN /\ reactions' = {r \in reactions : r.id # found[p].id}
            /\ outcome' = [outcome EXCEPT ![p] = "deleted"]
            /\ result' = [result EXCEPT ![p] = found[p].id]
       ELSE /\ outcome' = [outcome EXCEPT ![p] = "NoRowAffected"]
            /\ UNCHANGED <<reactions, result>>

\* comment_reaction_repo.update(comment_reaction.id, data)
ReactionUpdate(p) ==
    /\ UNCHANGED reaction_id_seq
    /\ IF \E r \in reactions : r.id = found[p].id
       THEN /\ reactions' = {IF r.id = found[p].id
                             THEN [r EXCEPT !.reaction_type = req[p].reaction_type]
                             ELSE r : r \in reactions}
            /\ outcome' = [outcome EXCEPT ![p] = "updated"]
            /\ result' = [result EXCEPT ![p] = found[p].id]
       ELSE /\ outcome' = [outcome EXCEPT ![p] = "NoRowAffected"]
            /\ UNCHANGED <<reactions, result>>

\* the write the branch selects, and the return
ReactionWrite(p) ==
    /\ pc[p] = "cr_write"
    /\ LET branch == reaction_branch(found[p], req[p].reaction_type) IN
         CASE branch = "create" -> ReactionCreate(p)
           [] branch = "delete" -> ReactionDelete(p)
           [] branch = "update" -> ReactionUpdate(p)
    /\ pc' = [pc EXCEPT ![p] = "done"]
    /\ stats' = update_comment_stats(stats)
    /\ UNCHANGED <<comments, comment_id_seq, stat_id_seq, req, found,
                   pending, origin, query, hooks>>

WriteReaction(p) == ReactionWrite(p) /\ UNCHANGED run

\* ---- request tasks ------------------------------------------------------
\* the response is sent and the task serves its next request
Return(p) ==
    /\ pc[p] = "done"
    /\ pc' = [pc EXCEPT ![p] = "idle"]
    /\ req' = [req EXCEPT ![p] = NoReq]
    /\ found' = [found EXCEPT ![p] = NoRow]
    /\ outcome' = [outcome EXCEPT ![p] = "none"]
    /\ result' = [result EXCEPT ![p] = None]
    /\ hooks' = [hooks EXCEPT ![p] = <<>>]
    /\ UNCHANGED <<tables, seqs, pending, origin, run, query>>

\* nothing cached, no session opened, the clock at its first tick
NoSession == [state |-> "none"]
InitProcess ==
    /\ cache = {}
    /\ session = NoSession
    /\ clock = 0

InitTasks ==
    /\ pc = [p \in Tasks |-> "idle"]
    /\ req = [p \in Tasks |-> NoReq]
    /\ found = [p \in Tasks |-> NoRow]
    /\ pending = [p \in Tasks |-> NoPending]
    /\ outcome = [p \in Tasks |-> "none"]
    /\ result = [p \in Tasks |-> None]
    /\ hooks = [p \in Tasks |-> <<>>]
    /\ InitProcess

\* ---- comment creation under concurrent requests -------------------------
Init ==
    /\ comments = {}
    /\ stats = {}
    /\ reactions = {}
    /\ comment_id_seq = 0
    /\ stat_id_seq = 0
    /\ reaction_id_seq = 0
    /\ origin = {}
    /\ run = NoRun
    /\ call = NoCall
    /\ ret = NoRet
    /\ InitTasks

Next ==
    \E p \in Tasks :
        \/ StartCreateComment(p)
        \/ CheckParent(p)
        \/ CreateFlush(p)
        \/ CreateCommit(p)
        \/ CreateAbort(p)
        \/ Return(p)

Spec == Init /\ [][Next]_vars

\* ---- reactions under concurrent requests --------------------------------
\* the comments the reaction requests are about: a root comment and a reply
\* to it, each with its stat row; every other comment id names no comment
SeedComments == {CommentRow(1, None, 1), CommentRow(2, 1, 1)}
SeedStats == {CommentStatRow(c.id, c.id) : c \in SeedComments}
SeedPairs == Users \X {c.id : c \in SeedComments}
SeedReactionId(user_id, comment_id) == (comment_id - 1) * NumUsers + user_id

\* a comment_reactions table the service can have produced: at most one row
\* per (user, comment), each on an existing comment
SeedReactions(state) ==
    {CommentReactionRow(SeedReactionId(pair[1], pair[2]), pair[1], pair[2], state[pair]) :
        pair \in {pr \in SeedPairs : state[pr] # "none"}}

InitSeeded ==
    /\ comments = SeedComments
    /\ stats = SeedStats
    /\ comment_id_seq = Cardinality(SeedComments)
    /\ stat_id_seq = Cardinality(SeedStats)
    /\ reaction_id_seq = SeedReactionIds
    /\ origin = reactions
    /\ call = NoCall
    /\ ret = NoRet
    /\ InitTasks

\* no reaction has been given yet
InitReaction ==
    /\ reactions = {}
    /\ run = NoRun
    /\ InitSeeded

\* any table of reactions earlier requests can have left
InitRace ==
    /\ \E state \in [SeedPairs -> {"none"} \cup CommentReactionType] :
         reactions = SeedReactions(state)
    /\ run = NoRun
    /\ InitSeeded

NextReaction ==
    \E p \in Tasks :
        \/ StartReaction(p)
        \/ GetCommentReaction(p)
        \/ WriteReaction(p)
        \/ Return(p)

SpecReaction == InitReaction /\ [][NextReaction]_vars

\* two requests, each making one call
NextRace ==
    \E p \in Tasks :
        \/ StartReaction(p)
        \/ GetCommentReaction(p)
        \/ WriteReaction(p)

SpecRace == InitRace /\ [][NextRace]_vars

\* ---- comment creation and reactions together -----------------------------
NextBoth ==
    \E p \in Tasks :
        \/ StartCreateComment(p)
        \/ CheckParent(p)
        \/ CreateFlush(p)
        \/ CreateCommit(p)
        \/ CreateAbort(p)
        \/ StartReaction(p)
        \/ GetCommentReaction(p)
        \/ WriteReaction(p)
        \/ Return(p)

SpecBoth == InitReaction /\ [][NextBoth]_vars

\* ---- reactions, one request at a time -----------------------------------
\* the reaction of a (user, comment) pair in a table: its type, or "none"
PairState(rows, user_id, comment_id) ==
    LET mine == {r \in rows : r.user_id = user_id /\ r.comment_id = comment_id} IN
      IF mine = {} THEN "none" ELSE (CHOOSE r \in mine : TRUE).reaction_type

\* history of the watched pair run.user, run.comment_id: the state the pair
\* had before the current run of identical requests, the requested type and
\* the parity of the run's length (n = 1 odd, n = 2 even, n = 0 no request yet)
TrackRun(p) ==
    IF req[p].user # run.user \/ req[p].comment_id # run.comment_id THEN run
    ELSE IF run.n > 0 /\ run.type = req[p].reaction_type
    THEN [run EXCEPT !.n = IF run.n = 1 THEN 2 ELSE 1]
    ELSE [run EXCEPT !.init = PairState(reactions, run.user, run.comment_id),
                     !.type = req[p].reaction_type,
                     !.n = 1]

\* a pair is watched; it starts with no reaction, a like or a dislike
InitSeq ==
    /\ \E pair \in SeedPairs, s0 \in {"none"} \cup CommentReactionType :
         /\ reactions = SeedReactions([pr \in SeedPairs |-> IF pr = pair THEN s0 ELSE "none"])
         /\ run = [NoRun EXCEPT !.user = pair[1], !.comment_id = pair[2]]
    /\ InitSeeded

\* a request is served only when no other request is in progress
SeqStart(p) ==
    /\ \A q \in Tasks \ {p} : pc[q] = "idle"
    /\ StartReaction(p)

\* the write of the call, observed in the history of the watched pair
SeqWrite(p) == ReactionWrite(p) /\ run' = TrackRun(p)

NextSeq ==
    \E p \in Tasks :
        \/ SeqStart(p)
        \/ GetCommentReaction(p)
        \/ SeqWrite(p)
        \/ Return(p)

SpecSeq == InitSeq /\ [][NextSeq]_vars

\* ======================================================================
\* Read-only calls: pagination, filters, count, comment listings
\* ======================================================================
\* the write side is at rest while a read-only call is studied: every stored
\* comment has its stat row and nobody has reacted
InitAtRest ==
    /\ stats = {CommentStatRow(c.id, c.id) : c \in comments}
    /\ reactions = {}
    /\ comment_id_seq = Cardinality(comments)
    /\ stat_id_seq = Cardinality(comments)
    /\ reaction_id_seq = 0
    /\ origin = {}
    /\ run = NoRun
    /\ InitTasks

AtRest == <<comments, stats, reactions, seqs, pc, req, found, pending,
            outcome, result, origin, run, hooks, process>>

\* the value of the call is dropped and another call can be made
Drop ==
    /\ call.op # "none"
    /\ call' = NoCall
    /\ ret' = NoRet
    /\ UNCHANGED AtRest

\* ---- PaginationParams, PaginationResponse -------------------------------
DefaultPage == 1
DefaultPageSize == 30
MinPage == 1
MinPageSize == 1
MaxPageSize == 100
MaxTotal == 6

\* integers a client sends as page or page_size: around every limit
ParamInts == {-1, 0, 1, 2, 3, 29, 30, 99, 100, 101}
\* keyword arguments: each of page and page_size is given or left out
ParamKwargs == UNION {[names -> ParamInts] : names \in SUBSET {"page", "page_size"}}
Totals == (0..MaxTotal) \cup {60, 90, 95}
ResponsePages == -1..3
ResponsePageSizes == (-2..3) \cup {DefaultPageSize}

\* Field(default, ge=.., le=..): the default fills a missing argument, then
\* the limits are tested
PaginationParams_fields(kwargs) ==
    [page |-> IF "page" \in DOMAIN kwargs THEN kwargs["page"] ELSE DefaultPage,
     page_size |-> IF "page_size" \in DOMAIN kwargs THEN kwargs["page_size"]
                   ELSE DefaultPageSize]

PaginationParams_no_upper(fields) ==
    /\ fields.page >= MinPage
    /\ fields.page_size >= MinPageSize

PaginationParams_valid(fields) ==
    /\ fields.page >= MinPage
    /\ fields.page_size >= MinPageSize
    /\ fields.page_size <= MaxPageSize

offset(params) == (params.page - 1) * params.page_size

limit(params) == params.page_size

PaginationParams(kwargs) ==
    LET fields == PaginationParams_fields(kwargs) IN
      IF PaginationParams_valid(fields)
      THEN [outcome |-> "ok", page |-> fields.page, page_size |-> fields.page_size,
            offset |-> offset(fields), limit |-> limit(fields)]
      ELSE [outcome |-> "ValidationError"]

\* math.ceil(total / page_size), page_size not 0
ceil(total, page_size) ==
    IF page_size > 0 THEN -((-total) \div page_size) ELSE -(total \div (-page_size))

total_pages_floor(self) ==
    IF self.page_size > 0 THEN self.total \div self.page_size ELSE 0

total_pages(self) ==
    IF self.page_size # 0 THEN ceil(self.total, self.page_size) ELSE 0

has_next(self) == self.page < total_pages(self)

has_prev(self) == self.page > 1

\* the response as it is serialised, computed fields included
PaginationResponse(total, page, page_size) ==
    LET self == [total |-> total, page |-> page, page_size |-> page_size] IN
      [outcome |-> "ok", total |-> total, page |-> page, page_size |-> page_size,
       total_pages |-> total_pages(self), has_next |-> has_next(self),
       has_prev |-> has_prev(self)]

\* PaginationResponse.create(items, total, params)
create(total, params) == PaginationResponse(total, params.page, params.page_size)

\* a request's query string is parsed into PaginationParams
NewPaginationParams ==
    /\ call.op = "none"
    /\ \E kwargs \in ParamKwargs :
         /\ call' = [op |-> "PaginationParams", kwargs |-> kwargs]
         /\ ret' = PaginationParams(kwargs)
    /\ UNCHANGED AtRest

\* a response is built from the accepted parameters of the request
CreateResponse ==
    /\ call.op = "PaginationParams"
    /\ ret.outcome = "ok"
    /\ \E total \in Totals :
         /\ call' = [op |-> "create", total |-> total, page |-> ret.page,
                     page_size |-> ret.page_size]
         /\ ret' = create(total, ret)
    /\ UNCHANGED AtRest

\* a response is constructed directly: its fields carry no limits
NewPaginationResponse ==
    /\ call.op = "none"
    /\ \E total \in Totals, page \in ResponsePages, page_size \in ResponsePageSizes :
         /\ call' = [op |-> "PaginationResponse", total |-> total, page |-> page,
                     page_size |-> page_size]
         /\ ret' = PaginationResponse(total, page, page_size)
    /\ UNCHANGED AtRest

InitPage ==
    /\ comments = {}
    /\ call = NoCall
    /\ ret = NoRet
    /\ InitAtRest

NextPage ==
    \/ NewPaginationParams
    \/ CreateResponse
    \/ NewPaginationResponse
    \/ Drop

SpecPage == InitPage /\ [][NextPage]_vars

\* ---- filter conditions (BaseSqlModel._build_filter_condition) -----------
\* a timestamp is a number of ticks: day * TicksPerDay + time of day
NumDays == 3
TicksPerDay == 2
MaxInt == 3

Days == 1..NumDays
Timestamps == TicksPerDay..(NumDays * TicksPerDay + TicksPerDay - 1)
Ints == 1..MaxInt

\* Python values of a payload: None, an int, a datetime.date (a day), a
\* datetime.datetime (a timestamp)
Value(kind, v) == [kind |-> kind, v |-> v]
IntPayloads == {Value("none", None)} \cup {Value("int", v) : v \in Ints}
DatePayloads == {Value("date", d) : d \in Days}
DatetimePayloads == {Value("datetime", t) : t \in Timestamps}

\* FilterCondition subclasses over a set of payload values; "bare" is a map
\* entry whose value is no FilterCondition
FilterCondition(tag, value) == [tag |-> tag, value |-> value]
FilterValues(payloads) ==
    {FilterCondition(tag, v) :
        tag \in {"Eq", "Ne", "Gt", "Gte", "Lt", "Lte", "bare"}, v \in payloads}
    \cup {FilterCondition("Between", <<lo, hi>>) : lo \in payloads, hi \in payloads}
    \cup {FilterCondition("In", S) :
            S \in {T \in SUBSET payloads : Cardinality(T) <= 2}}

\* columns of the filtered entity: a nullable integer and a timestamp
ColumnValues(column) ==
    IF column = "created_at" THEN Timestamps ELSE {None} \cup Ints
ColumnPayloads(column) ==
    IF column = "created_at" THEN DatePayloads \cup DatetimePayloads
    ELSE IntPayloads

isinstance_date_never(value) == FALSE

\* isinstance(value, date): datetime is a subclass of date
isinstance_date(value) == value.kind \in {"date", "datetime"}

operator_gte_as_gt(tag) ==
    CASE tag \in {"Eq", "bare"} -> "="
      [] tag = "Ne" -> "!="
      [] tag \in {"Gt", "Gte"} -> ">"
      [] tag = "Lt" -> "<"
      [] tag = "Lte" -> "<="
      [] tag = "Between" -> "between"
      [] tag = "In" -> "in"

\* the SQL operator each branch emits
operator(tag) ==
    CASE tag \in {"Eq", "bare"} -> "="
      [] tag = "Ne" -> "!="
      [] tag = "Gt" -> ">"
      [] tag = "Gte" -> ">="
      [] tag = "Lt" -> "<"
      [] tag = "Lte" -> "<="
      [] tag = "Between" -> "between"
      [] tag = "In" -> "in"

\* the condition built for one map entry: the operator, its operand and
\* whether the column is wrapped in cast(column, Date)
_build_filter_condition(filter_value) ==
    [op |-> operator(filter_value.tag),
     value |-> filter_value.value,
     cast |-> CASE filter_value.tag = "Between" -> isinstance_date(filter_value.value[1])
                [] filter_value.tag = "In" -> FALSE
                [] OTHER -> isinstance_date(filter_value.value)]

\* ---- how the database evaluates a condition on one row -------------------
\* cast(column, Date) and a date operand stand at the first tick of their
\* day; a datetime bound to a comparison with a DATE is sent as a date or as
\* a timestamp, as the driver decides (bind)
sql_column(condition, field) ==
    IF condition.cast THEN (field \div TicksPerDay) * TicksPerDay ELSE field

sql_operand(condition, value, bind) ==
    CASE value.kind = "date" -> value.v * TicksPerDay
      [] value.kind = "datetime" ->
            IF condition.cast /\ bind = "date"
            THEN (value.v \div TicksPerDay) * TicksPerDay ELSE value.v
      [] OTHER -> value.v

\* TRUE when the WHERE condition is true on the row (NULL counts as not true)
sql_true(condition, field, bind) ==
    LET l == sql_column(condition, field)
        r(value) == sql_operand(condition, value, bind)
        known(value) == field # None /\ value.kind # "none"
    IN  CASE condition.op = "=" ->
                IF condition.value.kind = "none" THEN field = None
                ELSE known(condition.value) /\ l = r(condition.value)
          [] condition.op = "!=" ->
                IF condition.value.kind = "none" THEN field # None
                ELSE known(condition.value) /\ l # r(condition.value)
          [] condition.op = ">" -> known(condition.value) /\ l > r(condition.value)
          [] condition.op = ">=" -> known(condition.value) /\ l >= r(condition.value)
          [] condition.op = "<" -> known(condition.value) /\ l < r(condition.value)
          [] condition.op = "<=" -> known(condition.value) /\ l <= r(condition.value)
          [] condition.op = "between" ->
                /\ known(condition.value[1]) /\ known(condition.value[2])
                /\ l >= r(condition.value[1]) /\ l <= r(condition.value[2])
          [] condition.op = "in" ->
                \E member \in condition.value : known(member) /\ l = r(member)

\* one map entry is compiled and evaluated on one stored value of its column
BuildFilterCondition ==
    /\ call.op = "none"
    /\ \E column \in {"parent_id", "created_at"}, bind \in {"date", "timestamp"} :
         \E field \in ColumnValues(column),
            filter_value \in FilterValues(ColumnPayloads(column)) :
           LET condition == _build_filter_condition(filter_value) IN
             /\ call' = [op |-> "filter", column |-> column, field |-> field,
                         filter_value |-> filter_value, bind |-> bind]
             /\ ret' = [outcome |-> "ok", condition |-> condition,
                        matches |-> sql_true(condition, field, bind)]
    /\ UNCHANGED AtRest

NextFilter ==
    \/ BuildFilterCondition
    \/ Drop

SpecFilter == InitPage /\ [][NextFilter]_vars

\* ---- count (BaseSqlModel.count) -------------------------------------------
\* parent_id of comments 1..n when each was created through create_comment:
\* a comment is a root or a reply to an earlier root
Forests(n) ==
    {parent \in [1..n -> {None} \cup 1..n] :
        \A i \in 1..n : parent[i] # None => (parent[i] < i /\ parent[parent[i]] = None)}

CountTables ==
    UNION {{ {CommentRow(i, parent[i], mark[i]) : i \in 1..n} :
                parent \in Forests(n), mark \in [1..n -> Marks]} :
           n \in 0..MaxComments}

\* mapped columns of the entity, and names hasattr(cls, name) accepts
Columns == {"id", "parent_id", "mark_id"}
Attributes == Columns \cup {"count"}
NoColumn == "None"

\* filter maps of at most two entries, in the order the map yields them
CountFilterValues ==
    {FilterCondition(tag, v) :
        tag \in {"bare", "Gte"},
        v \in {Value("none", None), Value("int", 1), Value("int", 2)}}
CountEntries == {"mark_id", "parent_id", "count", "nope"} \X CountFilterValues
CountFilters ==
    {<<>>}
    \cup {<<entry>> : entry \in CountEntries}
    \cup {filters \in CountEntries \X CountEntries : filters[1][1] # filters[2][1]}

\* the first key hasattr rejects, or None
_validate_filter_fields(filters) ==
    LET bad == {i \in DOMAIN filters : filters[i][1] \notin Attributes} IN
      IF bad = {} THEN None ELSE CHOOSE i \in bad : \A j \in bad : i <= j

\* the condition of one entry; an attribute that is no column is compared by
\* Python, not by SQLAlchemy: == gives False, >= raises TypeError
filter_condition(entry) ==
    IF entry[1] \in Columns THEN _build_filter_condition(entry[2])
    ELSE IF operator(entry[2].tag) = "=" THEN [op |-> "false"]
    ELSE [op |-> "TypeError"]

where_or(row, filters) ==
    \/ filters = <<>>
    \/ \E i \in DOMAIN filters :
         LET condition == filter_condition(filters[i]) IN
           /\ condition.op # "false"
           /\ sql_true(condition, row[filters[i][1]], "date")

\* stmt.where(and_(*filter_conditions)) on one row
where_and(row, filters) ==
    \A i \in DOMAIN filters :
        LET condition == filter_condition(filters[i]) IN
          /\ condition.op # "false"
          /\ sql_true(condition, row[filters[i][1]], "date")

count_expr_rows(rows, count_column, distinct) ==
    Cardinality({row \in rows : row[count_column] # None})

\* count(column) counts the rows whose column is not NULL,
\* count(distinct(column)) the values of the column that are not NULL
count_expr(rows, count_column, distinct) ==
    IF distinct
    THEN Cardinality({row[count_column] : row \in rows} \ {None})
    ELSE Cardinality({row \in rows : row[count_column] # None})

count(rows, filters, column, distinct) ==
    IF _validate_filter_fields(filters) # None
    THEN [outcome |-> "AttributeError", queries |-> 0]
    ELSE IF \E i \in DOMAIN filters : filter_condition(filters[i]).op = "TypeError"
    THEN [outcome |-> "TypeError", queries |-> 0]
    ELSE LET count_column == IF column # NoColumn THEN column ELSE "id"
             selected == {row \in rows : where_and(row, filters)}
             scalar == count_expr(selected, count_column, distinct)
         IN  [outcome |-> "ok", queries |-> 1,
              value |-> IF scalar # None THEN scalar ELSE 0]

Count ==
    /\ call.op = "none"
    /\ \E filters \in CountFilters, column \in {NoColumn, "parent_id", "mark_id"},
          distinct \in BOOLEAN :
         /\ call' = [op |-> "count", filters |-> filters, column |-> column,
                     distinct |-> distinct]
         /\ ret' = count(comments, filters, column, distinct)
    /\ UNCHANGED AtRest

InitCount ==
    /\ comments \in CountTables
    /\ call = NoCall
    /\ ret = NoRet
    /\ InitAtRest

NextCount ==
    \/ Count
    \/ Drop

SpecCount == InitCount /\ [][NextCount]_vars

\* ---- comment listings (MarkCommentRepository) ----------------------------
MaxListed == 4

\* the columns of Comment the listings read
Comment(id, parent_id, mark_id, is_deleted, created_at) ==
    [id |-> id, parent_id |-> parent_id, mark_id |-> mark_id,
     is_deleted |-> is_deleted, created_at |-> created_at]

\* the orders in which n comments can have been stamped, no two at one time
Stamps(n) == {f \in [1..n -> 1..n] : \A i, j \in 1..n : i # j => f[i] # f[j]}

\* the accepted parameters the listings are called with
ListParams ==
    {PaginationParams(kwargs) :
        kwargs \in {k \in ParamKwargs :
                      \A name \in DOMAIN k : k[name] \in 1..2}}

\* ORDER BY created_at DESC
RECURSIVE order_by_created_at_desc(_)
order_by_created_at_desc(rows) ==
    IF rows = {} THEN <<>>
    ELSE LET newest == CHOOSE r \in rows : \A q \in rows : q.created_at <= r.created_at
         IN  <<newest>> \o order_by_created_at_desc(rows \ {newest})

\* LIMIT params.limit OFFSET params.offset
limit_offset(ordered, params) ==
    SubSeq(ordered, params.offset + 1,
           IF params.offset + params.limit < Len(ordered)
           THEN params.offset + params.limit ELSE Len(ordered))

replies_with_deleted(rows, comment_id) == {c \in rows : c.parent_id = comment_id}

\* the rows get_replies and the replies relationship of get_comments select
replies_where(rows, comment_id) ==
    {c \in rows : c.parent_id = comment_id /\ ~c.is_deleted}

\* self.adapter.count({"parent_id": comment_id, "is_deleted": False}): the
\* number of rows of the repository's entity that satisfy the filter map
adapter_count(rows, comment_id) ==
    Cardinality({c \in rows : c.parent_id = comment_id /\ c.is_deleted = FALSE})

get_replies(rows, comment_id, params) ==
    [outcome |-> "ok",
     items |-> limit_offset(order_by_created_at_desc(replies_where(rows, comment_id)), params),
     total |-> adapter_count(rows, comment_id)]

first_reply_newest(replies) ==
    CHOOSE r \in replies : \A q \in replies : q.created_at <= r.created_at

\* min(comment.replies, key=lambda r: r.created_at)
first_reply(replies) ==
    CHOOSE r \in replies : \A q \in replies : r.created_at <= q.created_at

\* the rows of the listing; each carries its replies cut to the preview
get_comments(rows, mark_id, params) ==
    LET stmt == {c \in rows : c.mark_id = mark_id /\ ~c.is_deleted /\ c.parent_id = None}
        comments_page == limit_offset(order_by_created_at_desc(stmt), params)
        preview(comment) ==
            LET replies == replies_where(rows, comment.id) IN
              IF replies # {} THEN <<first_reply(replies)>> ELSE <<>>
    IN  [outcome |-> "ok",
         items |-> [i \in DOMAIN comments_page |->
                      [comment |-> comments_page[i], replies |-> preview(comments_page[i])]],
         total |-> Cardinality({c \in rows : c.mark_id = mark_id /\ ~c.is_deleted})]

\* get_paginated_comment_replies
GetReplies ==
    /\ call.op = "none"
    /\ \E comment_id \in 1..MaxListed, params \in ListParams :
         LET replies == get_replies(comments, comment_id, params) IN
           /\ call' = [op |-> "get_replies", comment_id |-> comment_id, params |-> params]
           /\ ret' = [outcome |-> "ok", items |-> replies.items, total |-> replies.total,
                      response |-> create(replies.total, params)]
    /\ UNCHANGED AtRest

\* get_pagination_comments
GetComments ==
    /\ call.op = "none"
    /\ \E mark_id \in Marks, params \in ListParams :
         LET listed == get_comments(comments, mark_id, params) IN
           /\ call' = [op |-> "get_comments", mark_id |-> mark_id, params |-> params]
           /\ ret' = [outcome |-> "ok", items |-> listed.items, total |-> listed.total,
                      response |-> create(listed.total, params)]
    /\ UNCHANGED AtRest

\* a table of up to MaxListed comments: roots and replies to earlier roots,
\* on any marks, deleted or not, stamped in any order
InitList ==
    /\ \E n \in 0..MaxListed :
         \E parent \in Forests(n), mark \in [1..n -> Marks],
            deleted \in [1..n -> BOOLEAN], stamp \in Stamps(n) :
           comments = {Comment(i, parent[i], mark[i], deleted[i], stamp[i]) : i \in 1..n}
    /\ call = NoCall
    /\ ret = NoRet
    /\ InitAtRest

NextList ==
    \/ GetComments
    \/ GetReplies
    \/ Drop

SpecList == InitList /\ [][NextList]_vars

\* ---- the session get_comments loads its comments in ----------------------
\* a session with loaded objects: the replies taken out of a loaded
\* comment.replies collection whose UPDATE is still to be flushed (dirty) and
\* those whose UPDATE was sent in the open transaction (flushed)
OpenSession(dirty, flushed) == [state |-> "open", dirty |-> dirty, flushed |-> flushed]

\* "comment.replies = [first_reply]" for every listed comment: the loaded
\* replies the assignment takes out of the collections
trimmed(rows, mark_id, params) ==
    LET listed == get_comments(rows, mark_id, params).items IN
      UNION {replies_where(rows, listed[i].comment.id) \
                {listed[i].replies[j] : j \in DOMAIN listed[i].replies} :
             i \in DOMAIN listed}

\* replies = relationship(back_populates="parent"), no delete-orphan cascade:
\* the flush writes a reply taken out of the collection with parent_id NULL
disassociated(reply) == [reply EXCEPT !.parent_id = None]

\* get_comments on a new session: the page is loaded and trimmed, then
\* Comment.count runs on the same session and, when the session autoflushes,
\* sends the pending UPDATEs first; the count's filter reads mark_id and
\* is_deleted only
SessionGetComments ==
    /\ call.op = "none"
    /\ session.state = "none"
    /\ \E mark_id \in Marks, params \in ListParams, autoflush \in BOOLEAN :
         LET listed == get_comments(comments, mark_id, params)
             removed == {r.id : r \in trimmed(comments, mark_id, params)}
         IN /\ call' = [op |-> "get_comments", mark_id |-> mark_id, params |-> params]
            /\ ret' = [outcome |-> "ok", items |-> listed.items, total |-> listed.total,
                       response |-> create(listed.total, params)]
            /\ session' = IF autoflush THEN OpenSession({}, removed)
                          ELSE OpenSession(removed, {})
    /\ UNCHANGED <<comments, stats, reactions, seqs, pc, req, found, pending,
                   outcome, result, origin, run, hooks, cache, clock>>

\* the session is committed: what is dirty is flushed, and the transaction
\* with every flushed UPDATE becomes the stored state
SessionCommit ==
    /\ session.state = "open"
    /\ comments' = {IF c.id \in session.dirty \cup session.flushed
                    THEN disassociated(c) ELSE c : c \in comments}
    /\ stats' = update_comment_stats(stats)
    /\ session' = NoSession
    /\ UNCHANGED <<reactions, seqs, pc, req, found, pending, outcome, result,
                   origin, run, hooks, cache, clock, call, ret>>

\* the session is closed without a commit: its transaction is rolled back
SessionClose ==
    /\ session.state = "open"
    /\ session' = NoSession
    /\ UNCHANGED <<comments, stats, reactions, seqs, pc, req, found, pending,
                   outcome, result, origin, run, hooks, cache, clock, call, ret>>

\* a table of up to MaxComments comments, as in InitList
InitSession ==
    /\ \E n \in 0..MaxComments :
         \E parent \in Forests(n), mark \in [1..n -> Marks],
            deleted \in [1..n -> BOOLEAN], stamp \in Stamps(n) :
           comments = {Comment(i, parent[i], mark[i], deleted[i], stamp[i]) : i \in 1..n}
    /\ call = NoCall
    /\ ret = NoRet
    /\ InitAtRest

NextSession ==
    \/ SessionGetComments
    \/ SessionCommit
    \/ SessionClose
    \/ Drop

SpecSession == InitSession /\ [][NextSession]_vars

\* ---- cached endpoints (custom_cache) --------------------------------------
\* the query strings of the requests: no parameter, or a page
CacheKwargs == {k \in ParamKwargs : DOMAIN k \subseteq {"page"} /\
                                     \A name \in DOMAIN k : k[name] \in 1..2}

\* custom_key_builder: namespace, method, the path (it carries mark_id) and a
\* digest of the path with the sorted query parameters
custom_key_builder(mark_id, kwargs) == <<"mark-comments", "get", mark_id, kwargs>>

\* the body of the endpoint get_comments
get_comments_endpoint(rows, mark_id, kwargs) ==
    LET params == PaginationParams(kwargs)
        listed == get_comments(rows, mark_id, params)
    IN  [items |-> listed.items, total |-> listed.total,
         response |-> create(listed.total, params)]

\* how a cache backend operation inside cached_func ends: it succeeds, the
\* library logs the failure and goes on, or the error leaves cached_func;
\* with no backend initialised cached_func fails before the lookup
BackendGet == {"ok", "logged", "RedisError", "AssertionError"}
BackendSet == {"ok", "logged", "RedisError"}

\* the except clauses of wrapper: what is done with an exception that leaves
\* cached_func
wrapper_except_reraise(exc) == "raise"
wrapper_except(exc) ==
    CASE exc = "RedisError" -> "func"
      [] OTHER -> "func"

\* an exception leaves cached_func in the call under study, whose record of
\* the call so far is so_far
Except(exc, so_far) ==
    IF wrapper_except(exc) = "func"
    THEN /\ call' = [so_far EXCEPT !.at = "func"]
         /\ UNCHANGED ret
    ELSE /\ call' = [so_far EXCEPT !.at = "done"]
         /\ ret' = [outcome |-> exc]

CacheFrame == <<comments, stats, reactions, seqs, pc, req, found, pending,
                outcome, result, origin, run, hooks, session, clock>>

\* a request for a cached endpoint arrives: wrapper calls cached_func
CacheCall ==
    /\ call.op = "none"
    /\ \E mark_id \in Marks, kwargs \in CacheKwargs :
         call' = [op |-> "get_comments", mark_id |-> mark_id, kwargs |-> kwargs,
                  at |-> "get", runs |-> 0, failed |-> "none", value |-> NoRet]
    /\ UNCHANGED <<ret, cache, CacheFrame>>

\* cached_func looks the key up
CacheGet ==
    /\ call.op = "get_comments" /\ call.at = "get"
    /\ \E backend \in BackendGet :
         LET key == custom_key_builder(call.mark_id, call.kwargs)
             entries == {e \in cache : e.key = key}
         IN CASE backend = "ok" /\ entries # {} ->
                   /\ call' = [call EXCEPT !.at = "done"]
                   /\ \E e \in entries : ret' = [outcome |-> "ok", value |-> e.value]
              [] backend = "ok" /\ entries = {} ->
                   /\ call' = [call EXCEPT !.at = "body"]
                   /\ UNCHANGED ret
              [] backend = "logged" ->
                   /\ call' = [call EXCEPT !.at = "body", !.failed = backend]
                   /\ UNCHANGED ret
              [] OTHER -> Except(backend, [call EXCEPT !.failed = backend])
    /\ UNCHANGED <<cache, CacheFrame>>

\* cached_func runs the handler on a miss; an error of the handler leaves
\* cached_func
CacheBody ==
    /\ call.op = "get_comments" /\ call.at = "body"
    /\ \E db_ok \in BOOLEAN :
         IF db_ok
         THEN /\ call' = [call EXCEPT !.at = "set", !.runs = @ + 1,
                            !.value = get_comments_endpoint(comments, call.mark_id,
                                                            call.kwargs)]
              /\ UNCHANGED ret
         ELSE Except("DBAPIError", [call EXCEPT !.runs = @ + 1])
    /\ UNCHANGED <<cache, CacheFrame>>

\* cached_func stores the result under the key and returns it
CacheSet ==
    /\ call.op = "get_comments" /\ call.at = "set"
    /\ \E backend \in BackendSet :
         LET key == custom_key_builder(call.mark_id, call.kwargs) IN
           CASE backend = "ok" ->
                   /\ cache' = {e \in cache : e.key # key} \cup
                                {[key |-> key, value |-> call.value]}
                   /\ call' = [call EXCEPT !.at = "done"]
                   /\ ret' = [outcome |-> "ok", value |-> call.value]
             [] backend = "logged" ->
                   /\ call' = [call EXCEPT !.at = "done", !.failed = backend]
                   /\ ret' = [outcome |-> "ok", value |-> call.value]
                   /\ UNCHANGED cache
             [] OTHER ->
                   /\ Except(backend, [call EXCEPT !.failed = backend])
                   /\ UNCHANGED cache
    /\ UNCHANGED CacheFrame

\* "return await func(*args, **clean_kwargs)" of an except clause
CacheFunc ==
    /\ call.op = "get_comments" /\ call.at = "func"
    /\ \E db_ok \in BOOLEAN :
         /\ call' = [call EXCEPT !.at = "done", !.runs = @ + 1]
         /\ ret' = IF db_ok
                   THEN [outcome |-> "ok",
                         value |-> get_comments_endpoint(comments, call.mark_id,
                                                         call.kwargs)]
                   ELSE [outcome |-> "DBAPIError"]
    /\ UNCHANGED <<cache, CacheFrame>>

\* the response is sent
CacheReturn ==
    /\ call.op = "get_comments" /\ call.at = "done"
    /\ call' = NoCall
    /\ ret' = NoRet
    /\ UNCHANGED <<cache, CacheFrame>>

\* an entry reaches its expire time
CacheExpire ==
    /\ \E e \in cache : cache' = cache \ {e}
    /\ UNCHANGED <<call, ret, CacheFrame>>

\* a table of up to MaxCached comments, as in InitList
MaxCached == 2
InitCache ==
    /\ \E n \in 0..MaxCached :
         \E parent \in Forests(n), mark \in [1..n -> Marks],
            deleted \in [1..n -> BOOLEAN], stamp \in Stamps(n) :
           comments = {Comment(i, parent[i], mark[i], deleted[i], stamp[i]) : i \in 1..n}
    /\ call = NoCall
    /\ ret = NoRet
    /\ InitAtRest

NextCache ==
    \/ CacheCall
    \/ CacheGet
    \/ CacheBody
    \/ CacheSet
    \/ CacheFunc
    \/ CacheReturn
    \/ CacheExpire

SpecCache == InitCache /\ [][NextCache]_vars

\* ---- admin forms of Comment (AdminComment) --------------------------------
\* the form data validate receives: "parent" is the Comment chosen in the
\* form, NoRow when the field is left empty
FormData(parent, mark_id) == [parent |-> parent, mark_id |-> mark_id]

\* AdminComment.validate: the fields it reports an error for
validate(data) ==
    IF data.parent # NoRow /\ data.parent.parent_id # None THEN {"parent"} ELSE {}

\* the forms offer every stored comment as parent
FormInputs == {FormData(parent, mark_id) :
                  parent \in {NoRow} \cup comments, mark_id \in Marks}

\* the "create" form is submitted: validate, then the row is inserted and
\* committed, its CommentStat with it
AdminCreate ==
    /\ call.op = "none"
    /\ comment_id_seq < MaxComments
    /\ \E data \in FormInputs :
         LET errors == validate(data)
             target == CommentRow(comment_id_seq + 1, data.parent.id, data.mark_id)
             listener == create_base_stats(target, TRUE)
         IN /\ call' = [op |-> "admin_create", data |-> data]
            /\ IF errors # {}
               THEN /\ ret' = [outcome |-> "FormValidationError", errors |-> errors]
                    /\ UNCHANGED <<comments, stats, comment_id_seq, stat_id_seq>>
               ELSE /\ comments' = comments \cup {target}
                    /\ stats' = stats \cup listener.rows
                    /\ comment_id_seq' = comment_id_seq + 1
                    /\ stat_id_seq' = stat_id_seq + Cardinality(listener.rows)
                    /\ ret' = [outcome |-> "ok", errors |-> errors]
    /\ UNCHANGED <<reactions, reaction_id_seq, pc, req, found, pending, outcome,
                   result, origin, run, hooks, process>>

\* the "edit" form of a stored comment is submitted: validate, then the row
\* is updated with the form's parent and mark
AdminEdit ==
    /\ call.op = "none"
    /\ \E edited \in comments, data \in FormInputs :
         LET errors == validate(data) IN
            /\ call' = [op |-> "admin_edit", id |-> edited.id, data |-> data]
            /\ IF errors # {}
               THEN /\ ret' = [outcome |-> "FormValidationError", errors |-> errors]
                    /\ UNCHANGED comments
               ELSE /\ comments' = (comments \ {edited}) \cup
                                     {[edited EXCEPT !.parent_id = data.parent.id,
                                                     !.mark_id = data.mark_id]}
                    /\ ret' = [outcome |-> "ok", errors |-> errors]
    /\ UNCHANGED <<stats, reactions, seqs, pc, req, found, pending, outcome,
                   result, origin, run, hooks, process>>

\* the comments create_comment can have left, see CountTables
InitAdmin ==
    /\ comments \in CountTables
    /\ call = NoCall
    /\ ret = NoRet
    /\ InitAtRest

NextAdmin ==
    \/ AdminCreate
    \/ AdminEdit
    \/ Drop

SpecAdmin == InitAdmin /\ [][NextAdmin]_vars

\* ---- the admin dashboard (HomeView) ---------------------------------------
\* @staticmethod @lru_cache(maxsize=1) get_dates(): the body runs when no
\* value is memoized for the (empty) arguments, at wall-clock tick now;
\* otherwise the memoized value is returned
get_dates(entries, now) ==
    IF \E e \in entries : e.key = "get_dates"
    THEN (CHOOSE e \in entries : e.key = "get_dates").value
    ELSE [now |-> now, today |-> now \div TicksPerDay,
          yesterday |-> now \div TicksPerDay - 1]

\* the count queries get_users_with_change gathers, as their filter maps
Queries == {"total_users", "new_users_today", "new_users_yesterday"}
filters(name, dates) ==
    CASE name = "total_users" -> <<>>
      [] name = "new_users_today" -> [created_at |-> dates.today]
      [] name = "new_users_yesterday" -> [created_at |-> dates.yesterday]

HomeFrame == <<comments, stats, reactions, seqs, pc, req, found, pending,
               outcome, result, origin, run, hooks>>

\* render: session = request.state.session, get_dates(), and the coroutines
\* of the count queries are handed to asyncio.gather
Render ==
    /\ call.op = "none"
    /\ LET dates == get_dates(cache, clock) IN
         /\ cache' = {[key |-> "get_dates", value |-> dates]}
         /\ call' = [op |-> "render", day |-> clock \div TicksPerDay, dates |-> dates,
                     queries |-> [q \in Queries |-> "created"], at |-> "gather"]
    /\ session' = [state |-> "open", executing |-> {}]
    /\ UNCHANGED <<ret, clock, HomeFrame>>

\* a gathered coroutine calls session.execute: on a session that is
\* executing another statement the call raises, no two statements run on
\* one connection at a time
Execute ==
    /\ call.op = "render" /\ call.at = "gather"
    /\ \E q \in Queries :
         /\ call.queries[q] = "created"
         /\ IF session.executing = {}
            THEN /\ session' = [session EXCEPT !.executing = {q}]
                 /\ call' = [call EXCEPT !.queries[q] = "executing"]
            ELSE /\ call' = [call EXCEPT !.queries[q] = "InterfaceError"]
                 /\ UNCHANGED session
    /\ UNCHANGED <<ret, cache, clock, HomeFrame>>

\* the statement the session is executing completes
Complete ==
    /\ call.op = "render" /\ call.at = "gather"
    /\ \E q \in session.executing :
         /\ session' = [session EXCEPT !.executing = {}]
         /\ call' = [call EXCEPT !.queries[q] = "done"]
    /\ UNCHANGED <<ret, cache, clock, HomeFrame>>

\* asyncio.gather returns: with the values of all coroutines once each is
\* done, or with the first exception as soon as one coroutine raised
Gathered ==
    /\ call.op = "render" /\ call.at = "gather"
    /\ \/ /\ \A q \in Queries : call.queries[q] = "done"
          /\ ret' = [outcome |-> "ok",
                     kpi |-> [q \in Queries |-> filters(q, call.dates)]]
       \/ /\ \E q \in Queries : call.queries[q] = "InterfaceError"
          /\ ret' = [outcome |-> "InterfaceError"]
    /\ call' = [call EXCEPT !.at = "done"]
    /\ UNCHANGED <<session, cache, clock, HomeFrame>>

\* time passes
Tick ==
    /\ clock < NumDays * TicksPerDay
    /\ clock' = clock + 1
    /\ UNCHANGED <<call, ret, cache, session, HomeFrame>>

InitHome ==
    /\ comments = {}
    /\ call = NoCall
    /\ ret = NoRet
    /\ InitAtRest

NextHome ==
    \/ Render
    \/ Execute
    \/ Complete
    \/ Gathered
    \/ Tick
    \/ Drop

SpecHome == InitHome /\ [][NextHome]_vars

\* ======================================================================
\* Properties
\* ======================================================================
IsCreate(p) == req[p].op = "create_comment"
IsReaction(p) == req[p].op = "reaction"
StatsOf(rows, comment_id) == {s \in rows : s.comment_id = comment_id}

\* C1: in every state reached by interleaved create_comment calls, no comment
\* whose own parent_id is set is the parent of another comment (root -> reply
\* only, never reply -> reply).
C1_DepthAtMostOne ==
    \A c \in comments :
        c.parent_id # None => ~ \E d \in comments : d.parent_id = c.id

\* a reply has been stored and a later reply to a reply was turned down
C1_Witness ==
    /\ \E c \in comments : c.parent_id # None
    /\ \E p \in Tasks : outcome[p] = "NestingLevelExceededError"

\* C2: a create_comment call whose parent_id names an existing comment that
\* itself has parent_id set ends with NestingLevelExceededError at its parent
\* check, and that step leaves the Comment and CommentStat rows, committed or
\* pending, as they were.
C2_ReplyToReplyRejected ==
    [][\A p \in Tasks :
          (/\ CheckParent(p)
           /\ get_by_id(req[p].parent_id) # NoRow
           /\ get_by_id(req[p].parent_id).parent_id # None)
          => /\ pc'[p] = "done"
             /\ outcome'[p] = "NestingLevelExceededError"
             /\ comments' = comments
             /\ stats' = stats
             /\ pending' = pending
             /\ pending[p] = NoPending]_vars

\* a call that named a reply as its parent has ended with the nesting error
C2_Witness ==
    \E p \in Tasks :
        /\ pc[p] = "done"
        /\ IsCreate(p)
        /\ outcome[p] = "NestingLevelExceededError"
        /\ get_by_id(req[p].parent_id).parent_id # None
        /\ result[p] = None

\* C3: a create_comment call whose parent_id names no existing comment ends
\* with ValidationError (field parent_id) at its parent check, and no Comment
\* or CommentStat row is persisted.
C3_MissingParentValidationError ==
    [][\A p \in Tasks :
          (CheckParent(p) /\ get_by_id(req[p].parent_id) = NoRow)
          => /\ pc'[p] = "done"
             /\ outcome'[p] = "ValidationError"
             /\ comments' = comments
             /\ stats' = stats]_vars

\* C4: every Comment has exactly one CommentStat row and every CommentStat
\* row belongs to a Comment; a CommentStat row appears only in the step that
\* makes its Comment appear, with all counters 0; a comment created with no
\* parent is stored with parent_id absent.
C4_OneStatPerComment ==
    /\ \A c \in comments : Cardinality(StatsOf(stats, c.id)) = 1
    /\ \A s \in stats : \E c \in comments : c.id = s.comment_id

C4_StatCreatedWithComment ==
    \A s \in stats' \ stats :
        /\ s.likes_count = 0 /\ s.dislikes_count = 0 /\ s.total_replies = 0
        /\ \E c \in comments' \ comments : c.id = s.comment_id

C4_RootStoredWithoutParent ==
    \A p \in Tasks :
        (CreateCommit(p) /\ req[p].parent_id = None)
        => \A c \in comments' \ comments : c.parent_id = None

C4_StatPerComment ==
    /\ []C4_OneStatPerComment
    /\ [][C4_StatCreatedWithComment /\ C4_RootStoredWithoutParent]_vars

\* a comment with no parent and a reply are stored, each with its stat row
C4_Witness ==
    /\ \E c \in comments : c.parent_id = None /\ StatsOf(stats, c.id) # {}
    /\ \E c \in comments : c.parent_id # None /\ StatsOf(stats, c.id) # {}

\* C5: creation is all-or-nothing: no committed state holds a Comment without
\* its CommentStat; a call that ends in failure (stat insert refused, parent
\* check, abort) leaves the committed rows as they were and nothing pending;
\* every flush that keeps the Comment ran the stat insert once.
C5_NoCommentWithoutStat ==
    \A c \in comments : StatsOf(stats, c.id) # {}

C5_FailureLeavesNothing ==
    \A p \in Tasks :
        (pc[p] # "done" /\ pc'[p] = "done" /\ outcome'[p] # "ok")
        => /\ comments' = comments
           /\ stats' = stats
           /\ pending'[p] = NoPending

C5_StatInsertNotSkipped ==
    \A p \in Tasks :
        (CreateFlush(p) /\ pc'[p] = "cc_commit")
        => \A c \in pending'[p].comments :
               Cardinality(StatsOf(pending'[p].stats, c.id)) = 1

C5_AllOrNothing ==
    /\ []C5_NoCommentWithoutStat
    /\ [][C5_FailureLeavesNothing /\ C5_StatInsertNotSkipped]_vars

\* the store refused a stat insert: the comment id it was for is used up and
\* names no row
C5_Witness ==
    \E p \in Tasks :
        /\ outcome[p] = "DBAPIError"
        /\ comment_id_seq > 0
        /\ \A c \in comments : c.id # comment_id_seq
        /\ \A q \in Tasks : pending[q] = NoPending

\* C6: in every state, under every interleaving of
\* create_or_update_comment_reaction calls, there is at most one
\* CommentReaction row per (user_id, comment_id).
C6_OneReactionPerPair ==
    \A r1, r2 \in reactions :
        (r1.user_id = r2.user_id /\ r1.comment_id = r2.comment_id) => r1 = r2

\* two calls both found no row; one created it and the other's insert was
\* refused
C6_Witness ==
    \E p, q \in Tasks :
        /\ p # q
        /\ outcome[p] = "created" /\ outcome[q] = "IntegrityError"
        /\ req[p].user = req[q].user /\ req[p].comment_id = req[q].comment_id
        /\ fk_comment(req[q].comment_id)

\* C7: a call that runs alone on an existing comment maps the pair's rows:
\* no row -> one row of the requested type; a row of the same type -> no row;
\* a row of the other type -> that same row with the requested type.
C7_ToggleStep ==
    \A p \in Tasks :
        (SeqWrite(p) /\ fk_comment(req[p].comment_id))
        => LET before == comment_reaction_rows(req[p].user, req[p].comment_id)
               after == {r \in reactions' : r.user_id = req[p].user
                                            /\ r.comment_id = req[p].comment_id}
               t == req[p].reaction_type
           IN /\ before = {} =>
                    /\ Cardinality(after) = 1
                    /\ \A r \in after : r.reaction_type = t
                    /\ outcome'[p] = "created"
              /\ \A r \in before :
                    /\ r.reaction_type = t => after = {} /\ outcome'[p] = "deleted"
                    /\ r.reaction_type # t =>
                          /\ after = {[r EXCEPT !.reaction_type = t]}
                          /\ outcome'[p] = "updated"
              /\ \A r \in reactions \ before : r \in reactions'
              /\ \A r \in reactions' \ after : r \in reactions

C7_ToggleAlone == [][C7_ToggleStep]_vars

\* like then dislike on the watched pair: one row, of type dislike
C7_Witness ==
    /\ run.n = 1 /\ run.init = "like" /\ run.type = "dislike"
    /\ Cardinality({r \in reactions : r.user_id = run.user
                                      /\ r.comment_id = run.comment_id}) = 1
    /\ PairState(reactions, run.user, run.comment_id) = "dislike"

\* C8 as stated: after an even number of identical requests the watched pair
\* is back in the state it had before the first of them, whatever that state
\* and the requested type.
C8_EvenReturnsToInitial ==
    run.n = 2 => PairState(reactions, run.user, run.comment_id) = run.init

\* C8 as amended: after an even number of identical requests the pair is
\* back in its initial state when that state was no reaction or a reaction of
\* the requested type; when it was a reaction of the other type the pair ends
\* with no reaction.
C8_EvenReturnsUnlessOtherType ==
    run.n = 2 =>
        PairState(reactions, run.user, run.comment_id) =
            IF run.init \in {"none", run.type} THEN run.init ELSE "none"

\* a like was liked an even number of times and is a like again
C8_Witness ==
    /\ run.n = 2 /\ run.init = "like" /\ run.type = "like"
    /\ PairState(reactions, run.user, run.comment_id) = "like"

\* the reaction state and the result the three-way rule gives a call
Toggle(s, t) == IF s = "none" THEN t ELSE IF s = t THEN "none" ELSE t
ToggleResult(s, t) == IF s = "none" THEN "created" ELSE IF s = t THEN "deleted" ELSE "updated"

SerialOrder(p, q) ==
    LET s0 == PairState(origin, req[p].user, req[p].comment_id)
        s1 == Toggle(s0, req[p].reaction_type)
        s2 == Toggle(s1, req[q].reaction_type)
    IN /\ outcome[p] = ToggleResult(s0, req[p].reaction_type)
       /\ outcome[q] = ToggleResult(s1, req[q].reaction_type)
       /\ PairState(reactions, req[p].user, req[p].comment_id) = s2

\* C9: when two calls by the same user on the same comment have both ended,
\* the pair's reaction and both results are those of the two calls run one
\* after the other in some order.
C9_Serializable ==
    \A p, q \in Tasks :
        (/\ p # q
         /\ pc[p] = "done" /\ pc[q] = "done"
         /\ req[p].user = req[q].user /\ req[p].comment_id = req[q].comment_id
         /\ fk_comment(req[p].comment_id))
        => SerialOrder(p, q) \/ SerialOrder(q, p)

\* C10: a reply to an existing root comment passes the parent check whatever
\* other calls have done, and its commit stores its own new Comment and its
\* own CommentStat and keeps every row that was there.
C10_ReplyStep ==
    \A p \in Tasks :
        /\ (/\ CheckParent(p)
            /\ get_by_id(req[p].parent_id) # NoRow
            /\ get_by_id(req[p].parent_id).parent_id = None)
           => pc'[p] = "cc_create" /\ outcome'[p] = "none"
        /\ (CreateCommit(p) /\ req[p].parent_id # None)
           => /\ outcome'[p] = "ok"
              /\ \A c \in comments : c.id # result'[p]
              /\ \E c \in comments' : c.id = result'[p] /\ c.parent_id = req[p].parent_id
              /\ \A s \in stats : s.comment_id # result'[p]
              /\ Cardinality(StatsOf(stats', result'[p])) = 1
              /\ comments \subseteq comments'
              /\ stats \subseteq stats'

C10_ConcurrentRepliesSucceed == [][C10_ReplyStep]_vars

\* two replies to the same root overlapped: one flushed first and is about to
\* commit, the other flushed later and has committed
C10_Witness ==
    \E p, q \in Tasks :
        /\ p # q
        /\ pc[p] = "cc_commit" /\ pc[q] = "done" /\ outcome[q] = "ok"
        /\ IsCreate(q)
        /\ req[p].parent_id # None /\ req[p].parent_id = req[q].parent_id
        /\ \A c \in pending[p].comments : c.id < result[q]
        /\ \E c \in comments : c.id = result[q] /\ c.parent_id = req[p].parent_id

\* ---- C11 ----------------------------------------------------------------
\* the comments a listing of mark call.mark_id is about
Listed ==
    {c \in comments : c.mark_id = call.mark_id /\ c.parent_id = None /\ ~c.is_deleted}

\* the replies to a comment that are not deleted
LiveReplies(comment_id) == {c \in comments : c.parent_id = comment_id /\ ~c.is_deleted}

\* the sequence is the window [offset, offset + limit) of the set taken from
\* the newest to the oldest: the row at position i has offset + i - 1 newer
\* rows in the set, and no row of the window is missing
IsWindow(rows, of, params) ==
    /\ \A i \in DOMAIN rows :
         /\ rows[i] \in of
         /\ Cardinality({c \in of : c.created_at > rows[i].created_at})
              = params.offset + i - 1
    /\ Len(rows) = IF Cardinality(of) <= params.offset THEN 0
                   ELSE IF Cardinality(of) - params.offset < params.limit
                   THEN Cardinality(of) - params.offset ELSE params.limit

\* C11: get_comments(mark_id, params) returns exactly the comments of the
\* mark that have no parent and are not deleted, from the newest to the
\* oldest, cut to the window [offset, offset + limit); each of them carries at
\* most one reply, its oldest reply that is not deleted, or none when it has
\* no such reply.
C11_RootsWithOldestReply ==
    call.op = "get_comments" =>
        /\ IsWindow([i \in DOMAIN ret.items |-> ret.items[i].comment], Listed, call.params)
        /\ \A i \in DOMAIN ret.items :
             LET live == LiveReplies(ret.items[i].comment.id)
                 shown == ret.items[i].replies
             IN  /\ Len(shown) <= 1
                 /\ Len(shown) = 0 <=> live = {}
                 /\ Len(shown) = 1 =>
                      /\ shown[1] \in live
                      /\ \A r \in live : shown[1].created_at <= r.created_at

\* a listed comment has two live replies and an older deleted one; the
\* preview is the older of the two live replies
C11_Witness ==
    /\ call.op = "get_comments"
    /\ \E i \in DOMAIN ret.items :
         LET c == ret.items[i].comment IN
           /\ Cardinality(LiveReplies(c.id)) = 2
           /\ Len(ret.items[i].replies) = 1
           /\ \E d \in comments :
                /\ d.parent_id = c.id /\ d.is_deleted
                /\ d.created_at < ret.items[i].replies[1].created_at

\* ---- C12 ----------------------------------------------------------------
\* C12: the total reported by get_comments and get_pagination_comments is
\* the number of comments the listing selects (of the mark, not deleted,
\* without parent), however many replies they have, so that total_pages and
\* has_next agree with the listing.
C12_TotalCountsListedRoots ==
    call.op = "get_comments" =>
        /\ ret.total = Cardinality(Listed)
        /\ ret.response.total = Cardinality(Listed)
        /\ ret.response.has_next <=>
             call.params.page * call.params.page_size < Cardinality(Listed)

\* ---- C13 ----------------------------------------------------------------
\* C13: get_replies(comment_id, params) returns all and only the comments
\* whose parent is comment_id and that are not deleted, from the newest to
\* the oldest, cut to the page window, with total the number of such rows;
\* it is not cut to the preview of get_comments.
C13_AllLiveReplies ==
    call.op = "get_replies" =>
        /\ IsWindow(ret.items, LiveReplies(call.comment_id), call.params)
        /\ ret.total = Cardinality(LiveReplies(call.comment_id))
        /\ ret.response.total = ret.total

\* a listed comment has three live replies: get_comments shows one of them,
\* get_replies returns the three
C13_Witness ==
    /\ call.op = "get_replies"
    /\ Cardinality(LiveReplies(call.comment_id)) = 3
    /\ Len(ret.items) = 3
    /\ ret.total = 3
    /\ \E c \in comments :
         /\ c.id = call.comment_id
         /\ LET listing == get_comments(comments, c.mark_id, call.params) IN
              /\ Len(listing.items) = 1
              /\ listing.items[1].comment = c
              /\ Len(listing.items[1].replies) = 1

\* ---- reference semantics of predicates ---------------------------------
\* the comparison each variant stands for
Reference(field, filter_value) ==
    LET tag == filter_value.tag
        value == filter_value.value
    IN  CASE tag \in {"Eq", "bare"} -> field = value.v
          [] tag = "Ne" -> field # value.v
          [] tag = "Gt" -> field > value.v
          [] tag = "Gte" -> field >= value.v
          [] tag = "Lt" -> field < value.v
          [] tag = "Lte" -> field <= value.v
          [] tag = "Between" -> value[1].v <= field /\ field <= value[2].v
          [] tag = "In" -> field \in {member.v : member \in value}

\* ---- C14 ----------------------------------------------------------------
\* every name of the filter map is a field of the entity
FieldsOnly ==
    /\ call.op = "count"
    /\ \A i \in DOMAIN call.filters : call.filters[i][1] \in {"id", "parent_id", "mark_id"}

\* the row satisfies the predicate of one map entry
Satisfies(row, entry) ==
    LET field == row[entry[1]] IN
      IF entry[2].value.kind = "none"
      THEN entry[2].tag \in {"Eq", "bare"} /\ field = None
      ELSE field # None /\ Reference(field, entry[2])

Matching == {row \in comments : \A i \in DOMAIN call.filters : Satisfies(row, call.filters[i])}

\* C14: count(entity, filters) returns the number of rows that satisfy every
\* predicate of the map, all the rows when the map is empty, and the integer
\* 0, not an error, when no row matches.
C14_CountsMatchingRows ==
    (FieldsOnly /\ call.column = "None" /\ ~call.distinct) =>
        /\ ret.outcome = "ok"
        /\ ret.value \in Nat
        /\ ret.value = Cardinality(Matching)

\* of three rows two satisfy the first predicate and one satisfies both
C14_Witness ==
    /\ FieldsOnly /\ call.column = "None" /\ ~call.distinct
    /\ Len(call.filters) = 2
    /\ Cardinality({row \in comments : Satisfies(row, call.filters[1])}) = 2
    /\ Cardinality(comments) = 3
    /\ ret.value = 1

\* ---- C15 ----------------------------------------------------------------
\* C15 as stated: with distinct=true and count field F, count returns the
\* number of distinct values of F among the matching rows (a NULL being no
\* value); with distinct=false it counts the matching rows.
C15_DistinctCountsValues ==
    (FieldsOnly /\ call.column # "None") =>
        /\ ret.outcome = "ok"
        /\ ret.value = IF call.distinct
                       THEN Cardinality({row[call.column] : row \in Matching} \ {None})
                       ELSE Cardinality(Matching)

\* C15 amended: with distinct=true and count field F, count returns the
\* number of distinct values of F that are not null among the matching rows,
\* also when several rows share a value; with distinct=false it counts the
\* matching rows whose F is not null.
C15_DistinctCountsNonNullValues ==
    (FieldsOnly /\ call.column # "None") =>
        /\ ret.outcome = "ok"
        /\ ret.value = IF call.distinct
                       THEN Cardinality({row[call.column] : row \in Matching} \ {None})
                       ELSE Cardinality({row \in Matching : row[call.column] # None})

\* two replies share their parent: three matching rows, one distinct value
C15_Witness ==
    /\ FieldsOnly /\ call.column = "parent_id" /\ call.distinct
    /\ Cardinality(Matching) = 3
    /\ Cardinality({row \in Matching : row.parent_id = 1}) = 2
    /\ ret.value = 1

\* ---- C16 ----------------------------------------------------------------
\* C16: count with a filter map holding a name that is no field of the
\* entity fails with the no-such-field error before any query is issued,
\* whatever the position of the name and whatever the other entries.
C16_UnknownFieldFailsFast ==
    (/\ call.op = "count"
     /\ \E i \in DOMAIN call.filters :
          call.filters[i][1] \notin {"id", "parent_id", "mark_id"}) =>
        /\ ret.outcome = "AttributeError"
        /\ ret.queries = 0

\* ---- C17 ----------------------------------------------------------------
\* C17: on a timestamp field a filter whose payload is a calendar date D,
\* given as Eq(D) or as the bare value D, matches exactly the rows whose
\* timestamp lies on day D, whatever their time of day.
C17_DatePayloadMatchesDay ==
    (/\ call.op = "filter"
     /\ call.column = "created_at"
     /\ call.filter_value.tag \in {"Eq", "bare"}
     /\ call.filter_value.value.kind = "date") =>
        LET D == call.filter_value.value.v IN
          ret.matches <=> (/\ call.field >= D * TicksPerDay
                           /\ call.field < (D + 1) * TicksPerDay)

\* a row stamped after midnight of day 2 is matched by the bare date 2
C17_Witness ==
    /\ call.op = "filter"
    /\ call.column = "created_at"
    /\ call.filter_value = FilterCondition("bare", Value("date", 2))
    /\ call.field = 2 * TicksPerDay + 1
    /\ ret.matches

\* ---- C18 ----------------------------------------------------------------
\* the filter compares a stored integer with integer payloads only
PlainIntegers ==
    /\ call.column = "parent_id"
    /\ call.field # None
    /\ CASE call.filter_value.tag = "Between" ->
              \A i \in 1..2 : call.filter_value.value[i].kind = "int"
         [] call.filter_value.tag = "In" ->
              \A member \in call.filter_value.value : member.kind = "int"
         [] OTHER -> call.filter_value.value.kind = "int"

C19_ParamsAcceptedAndWindow ==
    call.op = "PaginationParams" =>
        LET page == IF "page" \in DOMAIN call.kwargs THEN call.kwargs["page"] ELSE 1
            page_size == IF "page_size" \in DOMAIN call.kwargs
                         THEN call.kwargs["page_size"] ELSE 30
        IN  /\ ret.outcome \in {"ok", "ValidationError"}
            /\ ret.outcome = "ok" <=> (page >= 1 /\ page_size >= 1 /\ page_size <= 100)
            /\ ret.outcome = "ok" =>
                 /\ ret.page = page
                 /\ ret.page_size = page_size
                 /\ ret.offset = (page - 1) * page_size
                 /\ ret.limit = page_size

\* page 3 is given, page_size is left out: the window starts at row 60
C19_Witness ==
    /\ call.op = "PaginationParams"
    /\ DOMAIN call.kwargs = {"page"}
    /\ call.kwargs["page"] = 3
    /\ ret.outcome = "ok"
    /\ ret.offset = 60
    /\ ret.limit = 30

\* ---- C20 ----------------------------------------------------------------
IsResponse == call.op \in {"create", "PaginationResponse"}

\* n is the least integer not below total / page_size
IsCeiling(n, total, page_size) ==
    IF page_size > 0
    THEN n * page_size >= total /\ (n - 1) * page_size < total
    ELSE n * page_size <= total /\ (n - 1) * page_size > total

\* C20: in a PaginationResponse total_pages is ceil(total / page_size), and 0
\* when page_size is 0; has_next is page < total_pages; has_prev is page > 1;
\* create with total 0, page 1, size 30 gives 0 pages and neither neighbour,
\* create with total 95, page 2, size 30 gives 4 pages and both neighbours.
C20_ResponseMetadata ==
    /\ IsResponse =>
         /\ ret.outcome = "ok"
         /\ call.page_size # 0 => IsCeiling(ret.total_pages, call.total, call.page_size)
         /\ call.page_size = 0 => ret.total_pages = 0
         /\ ret.has_next <=> call.page < ret.total_pages
         /\ ret.has_prev <=> call.page > 1
    /\ (call.op = "create" /\ call.total = 0 /\ call.page = 1 /\ call.page_size = 30) =>
         (ret.total_pages = 0 /\ ~ret.has_next /\ ~ret.has_prev)
    /\ (call.op = "create" /\ call.total = 95 /\ call.page = 2 /\ call.page_size = 30) =>
         (ret.total_pages = 4 /\ ret.has_next /\ ret.has_prev)

\* rows exist and the response is built with page_size 0
C20_Witness ==
    /\ call.op = "PaginationResponse"
    /\ call.page_size = 0
    /\ call.total > 0
    /\ ret.outcome = "ok"
    /\ ret.total_pages = 0

\* ---- C24 ----------------------------------------------------------------
\* C24: in every reachable state a reply belongs to the same mark as its
\* parent: create_comment with parent_id p under mark m succeeds only when
\* comment p has mark_id m.
C24_ReplyOnMarkOfParent ==
    \A reply \in comments, parent \in comments :
        reply.parent_id = parent.id => reply.mark_id = parent.mark_id

\* ---- C25 ----------------------------------------------------------------
\* C25: create_or_update_comment_reaction, in each of its branches, and
\* create_comment of a reply leave every CommentStat row that already exists
\* as it is: the counters are set when the row is created and no service
\* operation changes them.
C25_StatRowsUntouched == [][\A s \in stats : s \in stats']_vars

\* comment 1 has received a new reply and a reaction, and its stat row still
\* holds the counters it was created with
C25_Witness ==
    /\ \E c \in comments : c.parent_id = 1 /\ c \notin SeedComments
    /\ \E r \in reactions : r.comment_id = 1
    /\ StatsOf(stats, 1) # {}
    /\ \A s \in StatsOf(stats, 1) :
         s.likes_count = 0 /\ s.dislikes_count = 0 /\ s.total_replies = 0

\* ---- C29 ----------------------------------------------------------------
\* the payload values of a predicate: the value itself, the two bounds of a
\* Between, the members of an In
Payloads(filter_value) ==
    CASE filter_value.tag = "Between" -> {filter_value.value[1], filter_value.value[2]}
      [] filter_value.tag = "In" -> filter_value.value
      [] OTHER -> {filter_value.value}

\* C29: for every predicate variant the field is truncated to the day before
\* the comparison if and only if the payload is a calendar date (the bounds
\* of a Between, the members of an In); an instant with a time of day and
\* any other scalar are compared with the full stored value.
C29_TruncatedIffCalendarDate ==
    (call.op = "filter" /\ Payloads(call.filter_value) # {}) =>
        /\ (\A v \in Payloads(call.filter_value) : v.kind = "date") => ret.condition.cast
        /\ (\A v \in Payloads(call.filter_value) : v.kind # "date") => ~ret.condition.cast

\* ---- C30 ----------------------------------------------------------------
\* C30: in create_comment, before_create_comment runs only once the parent
\* checks have passed and before the comment is persisted;
\* after_create_comment runs exactly once, after the comment is persisted,
\* and receives the created comment; when a parent check fails neither hook
\* runs, and when persisting fails after_create_comment does not run
HooksOf(p, hook) == {i \in 1..Len(hooks[p]) : hooks[p][i].hook = hook}
C30_HookOrder ==
    \A p \in Tasks :
        /\ Cardinality(HooksOf(p, "before_create_comment")) <= 1
        /\ Cardinality(HooksOf(p, "after_create_comment")) <= 1
        /\ HooksOf(p, "before_create_comment") # {} =>
              /\ req[p].op = "create_comment"
              /\ req[p].parent_id # None =>
                    parent_check(get_by_id(req[p].parent_id)) = "pass"
              /\ hooks[p][1].hook = "before_create_comment"
        /\ pc[p] = "cc_commit" =>
              /\ hooks[p] = <<HookRun("before_create_comment", None)>>
              /\ pending[p].comments \cap comments = {}
        /\ outcome[p] = "ok" /\ req[p].op = "create_comment" =>
              /\ hooks[p] = <<HookRun("before_create_comment", None),
                              HookRun("after_create_comment", result[p])>>
              /\ \E c \in comments : c.id = result[p] /\ c.parent_id = req[p].parent_id
                                                      /\ c.mark_id = req[p].mark_id
        /\ HooksOf(p, "after_create_comment") # {} => outcome[p] = "ok"
        /\ outcome[p] \in {"AttributeError", "NestingLevelExceededError"} =>
              hooks[p] = <<>>
        /\ outcome[p] \in {"DBAPIError", "Aborted"} =>
              HooksOf(p, "after_create_comment") = {}

\* a reply was created: both hooks ran, and another call failed its check
C30_Witness ==
    \E p \in Tasks, q \in Tasks :
        /\ outcome[p] = "ok" /\ req[p].op = "create_comment" /\ req[p].parent_id # None
        /\ Len(hooks[p]) = 2
        /\ outcome[q] = "NestingLevelExceededError" /\ hooks[q] = <<>>

\* ---- C23 ----------------------------------------------------------------
\* C23: every create or edit of a Comment that AdminComment.validate accepts
\* keeps nesting at one level: afterwards no comment with parent_id set is
\* the parent of another comment, and no comment is its own parent
C23_AdminKeepsNesting ==
    \A c \in comments :
        c.parent_id # None =>
            /\ c.parent_id # c.id
            /\ ~\E reply \in comments : reply.parent_id = c.id

\* ---- C22 ----------------------------------------------------------------
\* C22: get_comments only reads the store: cutting the replies of each
\* comment to the preview leaves every stored Comment row as it was, the
\* parent_id of the replies cut away included, also when the session that
\* loaded them is flushed or committed afterwards
C22_StoredRowsUnchanged == [][comments' = comments]_vars

\* ---- C21 ----------------------------------------------------------------
\* C21: when the cache backend fails during a call of a custom_cache-wrapped
\* handler, the call ends with what the handler itself gives, called
\* directly: the failure of the cache backend never reaches the caller
CacheErrors == {"RedisError", "AssertionError"}
C21_FailOpen ==
    call.op = "get_comments" =>
        /\ ret.outcome \notin CacheErrors
        /\ (call.at = "done" /\ call.failed # "none") =>
              /\ call.runs >= 1
              /\ ret.outcome \in {"ok", "DBAPIError"}
              /\ ret.outcome = "ok" =>
                    ret.value = get_comments_endpoint(comments, call.mark_id, call.kwargs)

\* the lookup raised RedisError and the call returned a non-empty listing
C21_Witness ==
    /\ call.op = "get_comments" /\ call.at = "done"
    /\ call.failed = "RedisError" /\ call.runs = 1
    /\ ret.outcome = "ok" /\ ret.value.total > 0

\* ---- C26 ----------------------------------------------------------------
\* C26: in every call of a custom_cache-wrapped handler the body of the
\* handler runs at most once; an error the handler raises reaches the caller
\* without a second run of the handler
C26_BodyRunsAtMostOnce ==
    call.op = "get_comments" => call.runs <= 1

\* ---- C27 ----------------------------------------------------------------
\* C27: render returns its composite result only after every count query
\* issued concurrently has completed, and the queries need no coordination
\* with each other although all run on the one session of the request: a
\* render that returned has the values of all its queries
C27_AllQueriesComplete ==
    (call.op = "render" /\ call.at = "done") =>
        /\ ret.outcome = "ok"
        /\ \A q \in Queries : call.queries[q] = "done"

\* ---- C28 ----------------------------------------------------------------
\* C28: every render filters by today and yesterday as of its own request:
\* the value get_dates memoizes lives for one request only
C28_DatesOfTheRequest ==
    call.op = "render" =>
        /\ call.dates.today = call.day
        /\ call.dates.yesterday = call.day - 1

====
